---- MODULE Spec2Model ----
(***************************************************************************)
(* Model of the two non-interactive proofs of tss-lib:                     *)
(*   - Alice's range proof    (package mta,      src/unnamed/part_000)      *)
(*   - the factorization proof (package facproof, src/crypto/facproof)      *)
(* Group sizes are scaled down (CurveN, LBits); all arithmetic is the code's *)
(* arithmetic on unbounded integers.  The Fiat-Shamir hash is an            *)
(* uninterpreted function: the table `oracle` is filled on first use with   *)
(* an arbitrary challenge in [0, q) and answers the same transcript with    *)
(* the same challenge ever after.                                           *)
(***************************************************************************)
EXTENDS Integers, Sequences, FiniteSets, TLC

VARIABLES
    oracle,     \* transcript -> challenge, the queries made so far
    rpc,        \* range proof: "start" | "proved"
    rpub,       \* range proof: public statement and Alice's witness
    rproof,     \* range proof: the proof held by the verifier
    rnil,       \* range proof: names of Verify's arguments / fields that are nil
    rres,       \* range proof: outcome of Verify on rproof ("none" before the call)
    rtampered,  \* range proof: whether rproof was altered after the first Verify
    rbase,      \* range proof: the proof before it was altered
    rbaseRes,   \* range proof: outcome of Verify on rbase
    fpc,        \* factorization proof: "start" | "failed" | "proved" | "encoded" | "decoded" | "reencoded"
    fpub,       \* factorization proof: public statement and the prover's factors
    fproof,     \* factorization proof: the proof held by the verifier
    fnil,       \* factorization proof: names of arguments / fields that are nil
    fres,       \* factorization proof: outcome of Verify on fproof ("none" before the call)
    fret,       \* factorization proof: line of proof.go at which Verify returned
    ftampered,  \* factorization proof: whether proof or statement was altered after the first Verify
    wire,       \* factorization proof: the byte arrays Bytes() produced, as received
    wtampered,  \* factorization proof: whether the byte arrays were altered in transit
    fdec,       \* factorization proof: what NewProofFromBytes returned for wire
    wire2       \* factorization proof: Bytes() of the decoded proof

rvars == <<rpc, rpub, rproof, rnil, rres, rtampered, rbase, rbaseRes>>
fvars == <<fpc, fpub, fproof, fnil, fres, fret, ftampered, wire, wtampered, fdec, wire2>>
vars == <<oracle, rvars, fvars>>

(***************************************************************************)
(* Bounds of the model.                                                    *)
(***************************************************************************)
CurveN == 2     \* the curve's group order (secp256k1's in the code)
LBits == 1      \* rangeParameter is 2^LBits (2^15 in the code)

(***************************************************************************)
(* big.Int and common.ModInt arithmetic.                                    *)
(***************************************************************************)
Abs(x) == IF x < 0 THEN -x ELSE x

RECURSIVE GCD(_, _)
GCD(a, b) == IF b = 0 THEN Abs(a) ELSE GCD(Abs(b), Abs(a) % Abs(b))

RECURSIVE Sqrt(_, _)
Sqrt(n, k) == IF (k + 1) * (k + 1) > n THEN k ELSE Sqrt(n, k + 1)

RECURSIVE ExpNN(_, _, _)
ExpNN(x, y, m) ==
    IF y = 0 THEN 1 % m
    ELSE LET h  == ExpNN(x, y \div 2, m)
             sq == (h * h) % m
         IN  IF y % 2 = 1 THEN (sq * (x % m)) % m ELSE sq

ModInverse(x, m) == CHOOSE i \in 0..(m - 1) : (i * x) % m = 1 % m

\* big.Int.Exp returns nil for a negative exponent of a base with no inverse
ExpIsNil(x, y, m) == y < 0 /\ GCD(x, m) # 1

ModExp(x, y, m) ==
    IF y >= 0 THEN ExpNN(x, y, m)
    ELSE IF GCD(x, m) = 1 THEN ExpNN(ModInverse(x, m), -y, m)
    ELSE 0

ModMul(x, y, m) == (x * y) % m

\* the multiplicative order of the unit h modulo m, counted up from k
RECURSIVE Order(_, _, _)
Order(h, m, k) == IF ExpNN(h, k, m) = 1 % m THEN k ELSE Order(h, m, k + 1)

IsInInterval(b, bound) == b < bound /\ b >= 0

\* GetRandomPositiveInt draws from [0, bound): the two ends of the range
Ends(bound) == {x \in {0, bound - 1} : 0 <= x /\ x < bound}

\* the two ends and the value next to the lower one
Corner(bound) == {x \in {0, 1, bound - 1} : 0 <= x /\ x < bound}

\* GetRandomPositiveRelativelyPrimeInt draws from the units of [1, bound)
CoprimeEnds(bound) == {x \in {1, bound - 1} : 1 <= x /\ x < bound /\ GCD(x, bound) = 1}

CoprimeCorner(bound) == {x \in {1, 2, bound - 1} : 1 <= x /\ x < bound /\ GCD(x, bound) = 1}

q == CurveN

(***************************************************************************)
(* Fiat-Shamir challenge: SHA512_256i followed by RejectionSample.          *)
(***************************************************************************)
Challenges == 0..(q - 1)

HashAllows(t, e) == e \in Challenges /\ (t \in DOMAIN oracle => oracle[t] = e)

HashRecord(t, e) == [x \in DOMAIN oracle \cup {t} |-> IF x = t THEN e ELSE oracle[x]]

(***************************************************************************)
(* Range proof (mta).                                                      *)
(***************************************************************************)
q3 == q * q * q

RangeFields == {"S1", "S2", "S", "Z", "U", "W"}
RangeArgs == {"pf", "pk", "NTilde", "h1", "h2", "c"}

\* what Verify may be handed as nil: a proof field, the proof, a public input
RangeNilable == <<"S1", "S2", "S", "Z", "U", "W", "pf", "pk", "NTilde", "h1", "h2", "c">>

ZeroRange == [Z |-> 0, U |-> 0, W |-> 0, S |-> 0, S1 |-> 0, S2 |-> 0]

NSquare(N) == N * N

\* paillier: Gamma = N + 1, c = Gamma^m * r^N mod N^2
PaillierGamma(N) == N + 1

Encrypt(N, m, r) ==
    ModMul(ModExp(PaillierGamma(N), m, NSquare(N)), ModExp(r, N, NSquare(N)), NSquare(N))

RangeTranscript(pf, nil, pub) ==
    << <<pub.N, PaillierGamma(pub.N), pub.c,
         IF "Z" \in nil THEN 0 ELSE pf.Z,
         IF "U" \in nil THEN 0 ELSE pf.U,
         IF "W" \in nil THEN 0 ELSE pf.W>>,
       nil \cap {"Z", "U", "W"} >>

\* steps 5-7: the commitments, which do not depend on the challenge
RangeCommit(pub, alpha, beta, gamma, rho) ==
    [Z |-> ModMul(ModExp(pub.h1, pub.m, pub.NTilde), ModExp(pub.h2, rho, pub.NTilde), pub.NTilde),
     U |-> ModMul(ModExp(PaillierGamma(pub.N), alpha, NSquare(pub.N)),
                  ModExp(beta, pub.N, NSquare(pub.N)), NSquare(pub.N)),
     W |-> ModMul(ModExp(pub.h1, alpha, pub.NTilde), ModExp(pub.h2, gamma, pub.NTilde), pub.NTilde)]

\* the same with step "s2 = e * rho + gamma" adding rho twice
ProveRangeAliceBadS2(pub, alpha, beta, gamma, rho, e) ==
    LET cm == RangeCommit(pub, alpha, beta, gamma, rho)
    IN  [Z  |-> cm.Z, U |-> cm.U, W |-> cm.W,
         S  |-> ModMul(ModExp(pub.r, e, pub.N), beta, pub.N),
         S1 |-> e * pub.m + alpha,
         S2 |-> e * rho + rho]

ProveRangeAlice(pub, alpha, beta, gamma, rho, e) ==
    LET cm == RangeCommit(pub, alpha, beta, gamma, rho)
    IN  [Z  |-> cm.Z, U |-> cm.U, W |-> cm.W,
         S  |-> ModMul(ModExp(pub.r, e, pub.N), beta, pub.N),
         S1 |-> e * pub.m + alpha,
         S2 |-> e * rho + gamma]

\* check 4: u = gamma^s1 * s^N * c^-e mod N^2
RangeProducts4(pf, pub, e) ==
    ModMul(ModMul(ModExp(PaillierGamma(pub.N), pf.S1, NSquare(pub.N)),
                  ModExp(pf.S, pub.N, NSquare(pub.N)), NSquare(pub.N)),
           ModExp(pub.c, -e, NSquare(pub.N)), NSquare(pub.N))

\* check 5 with the factor h2^s2 left out
RangeProducts5NoS2(pf, pub, e) ==
    ModMul(ModExp(pub.h1, pf.S1, pub.NTilde), ModExp(pf.Z, -e, pub.NTilde), pub.NTilde)

\* check 5: w = h1^s1 * h2^s2 * z^-e mod NTilde
RangeProducts5(pf, pub, e) ==
    ModMul(ModMul(ModExp(pub.h1, pf.S1, pub.NTilde),
                  ModExp(pub.h2, pf.S2, pub.NTilde), pub.NTilde),
           ModExp(pf.Z, -e, pub.NTilde), pub.NTilde)

\* whether Verify gets as far as the hash of line 93
RangeReachesHash(pf, nil) ==
    /\ RangeArgs \cap nil = {}
    /\ "S1" \notin nil
    /\ ~(pf.S1 > q3)

\* the bound check off by one
RangeBoundBad(pf) == pf.S1 > q3 + 1

RangeBound(pf) == pf.S1 > q3

\* RangeProofAlice.Verify, with the challenge e the hash gives and hp, whether
\* the hash panics on a nil integer.  "panic" is a nil dereference.
RangeVerify(pf, nil, pub, e, hp) ==
    IF RangeArgs \cap nil # {} THEN "false"
    ELSE IF "S1" \in nil THEN "panic"
    ELSE IF RangeBound(pf) THEN "false"
    ELSE IF {"Z", "U", "W"} \cap nil # {} /\ hp THEN "panic"
    ELSE IF "S" \in nil THEN "panic"
    ELSE IF ExpIsNil(PaillierGamma(pub.N), pf.S1, NSquare(pub.N)) THEN "panic"
    ELSE IF ExpIsNil(pub.c, -e, NSquare(pub.N)) THEN "panic"
    ELSE IF "U" \in nil THEN "panic"
    ELSE IF pf.U # RangeProducts4(pf, pub, e) THEN "false"
    ELSE IF "S2" \in nil \/ "Z" \in nil THEN "panic"
    ELSE IF ExpIsNil(pub.h1, pf.S1, pub.NTilde) \/ ExpIsNil(pub.h2, pf.S2, pub.NTilde) THEN "panic"
    ELSE IF ExpIsNil(pf.Z, -e, pub.NTilde) THEN "panic"
    ELSE IF "W" \in nil THEN "panic"
    ELSE IF pf.W # RangeProducts5(pf, pub, e) THEN "false"
    ELSE "true"

ZeroFac ==
    [P |-> 0, Q |-> 0, A |-> 0, B |-> 0, T |-> 0, Sigma |-> 0,
     Z1 |-> 0, Z2 |-> 0, W1 |-> 0, W2 |-> 0, V |-> 0]

\* the factorization proof's variables while the range proof is exercised
FIdle ==
    /\ fpc = "idle"
    /\ fpub = [N0p |-> 1, N0q |-> 1, N0 |-> 1, NCap |-> 1, s |-> 0, t |-> 0]
    /\ fproof = ZeroFac
    /\ fnil = {}
    /\ fres = "none"
    /\ fret = 0
    /\ ftampered = FALSE
    /\ wire = <<>>
    /\ wtampered = FALSE
    /\ fdec = [err |-> FALSE, pf |-> ZeroFac]
    /\ wire2 = <<>>

\* Public statements: a Paillier key, Pedersen parameters, and Alice's witness
RangeStatements ==
    {[N |-> 15, NTilde |-> 35, h1 |-> h[1], h2 |-> h[2], m |-> m, r |-> r,
      c |-> Encrypt(15, m, r)] :
        h \in {<<4, 16>>, <<9, 4>>}, m \in {0, 2, 14}, r \in {2, 14}}

RInit ==
    /\ oracle = <<>>
    /\ rpc = "start"
    /\ rpub \in RangeStatements
    /\ rproof = ZeroRange
    /\ rnil = {}
    /\ rres = "none"
    /\ rtampered = FALSE
    /\ rbase = ZeroRange
    /\ rbaseRes = "none"
    /\ FIdle

RProve ==
    /\ rpc = "start"
    /\ \E alpha \in Corner(q3), beta \in CoprimeCorner(rpub.N),
          gamma \in Corner(q3 * rpub.NTilde), rho \in Corner(q * rpub.NTilde),
          e \in Challenges :
          LET cm == RangeCommit(rpub, alpha, beta, gamma, rho)
              t  == RangeTranscript(cm, {}, rpub)
          IN  /\ HashAllows(t, e)
              /\ oracle' = HashRecord(t, e)
              /\ rproof' = ProveRangeAlice(rpub, alpha, beta, gamma, rho, e)
    /\ rpc' = "proved"
    /\ UNCHANGED <<rpub, rnil, rres, rtampered, rbase, rbaseRes>>

RVerify ==
    /\ rpc = "proved"
    /\ rres = "none"
    /\ \E e \in Challenges, hp \in BOOLEAN :
          LET t == RangeTranscript(rproof, rnil, rpub)
          IN  /\ HashAllows(t, e)
              /\ rres' = RangeVerify(rproof, rnil, rpub, e, hp)
              /\ oracle' = IF RangeReachesHash(rproof, rnil) /\ ~({"Z", "U", "W"} \cap rnil # {} /\ hp)
                           THEN HashRecord(t, e) ELSE oracle
    /\ UNCHANGED <<rpc, rpub, rproof, rnil, rtampered, rbase, rbaseRes>>

\* what a proof received from the network may hold in place of field f
RangeReplacements(pf, pub, f) ==
    {pf[f] + 1, pf[f] - 1, pf[f] + pub.N, pf[f] + Order(pub.h2, pub.NTilde, 1), 0, q3 + 1} \ {pf[f]}

RTamperField ==
    /\ rpc = "proved" /\ rres # "none" /\ ~rtampered
    /\ \E f \in RangeFields : \E v \in RangeReplacements(rproof, rpub, f) :
          rproof' = [rproof EXCEPT ![f] = v]
    /\ rbase' = rproof /\ rbaseRes' = rres /\ rres' = "none" /\ rtampered' = TRUE
    /\ UNCHANGED <<oracle, rpc, rpub, rnil>>

RTamperSwap ==
    /\ rpc = "proved" /\ rres # "none" /\ ~rtampered
    /\ rproof.S1 # rproof.S2
    /\ rproof' = [rproof EXCEPT !.S1 = rproof.S2, !.S2 = rproof.S1]
    /\ rbase' = rproof /\ rbaseRes' = rres /\ rres' = "none" /\ rtampered' = TRUE
    /\ UNCHANGED <<oracle, rpc, rpub, rnil>>

RTamperNil ==
    /\ rpc = "proved" /\ rres # "none" /\ ~rtampered
    /\ \E i \in 1..Len(RangeNilable) : rnil' = {RangeNilable[i]}
    /\ rbase' = rproof /\ rbaseRes' = rres /\ rres' = "none" /\ rtampered' = TRUE
    /\ UNCHANGED <<oracle, rpc, rpub, rproof>>

RNext ==
    \/ RProve /\ UNCHANGED fvars
    \/ RVerify /\ UNCHANGED fvars
    \/ RTamperField /\ UNCHANGED fvars
    \/ RTamperSwap /\ UNCHANGED fvars
    \/ RTamperNil /\ UNCHANGED fvars

SpecRange == RInit /\ [][RNext]_vars

(***************************************************************************)
(* Factorization proof (facproof).                                         *)
(***************************************************************************)
ProofFacBytesParts == 11

rangeParameter == 2 ^ LBits

FacOrder == <<"P", "Q", "A", "B", "T", "Sigma", "Z1", "Z2", "W1", "W2", "V">>
FacFields == {FacOrder[i] : i \in 1..ProofFacBytesParts}
FacProveArgs == {"ec", "N0", "NCap", "s", "t", "N0p", "N0q"}
FacVerifyArgs == {"pf", "ec", "N0", "NCap", "s", "t"}

\* the bounds NewProof and Verify derive from the statement
leSqrtN0(pub) == rangeParameter * q * Sqrt(pub.N0, 0)
lNCap(pub) == rangeParameter * pub.NCap
lN0NCap(pub) == lNCap(pub) * pub.N0
leN0NCap(pub) == lN0NCap(pub) * q
leNCap(pub) == lNCap(pub) * q
leN0NCap2(pub) == 2 * leN0NCap(pub)
leNCap2(pub) == 2 * leNCap(pub)

FacTranscript(pf, pub) ==
    <<pub.N0, pub.NCap, pub.s, pub.t, pf.P, pf.Q, pf.A, pf.B, pf.T, pf.Sigma>>

\* Fig 28.1: the commitments, which do not depend on the challenge
FacCommit(pub, smp) ==
    LET Q == ModMul(ModExp(pub.s, pub.N0q, pub.NCap), ModExp(pub.t, smp.nu, pub.NCap), pub.NCap)
    IN  [P |-> ModMul(ModExp(pub.s, pub.N0p, pub.NCap), ModExp(pub.t, smp.mu, pub.NCap), pub.NCap),
         Q |-> Q,
         A |-> ModMul(ModExp(pub.s, smp.alpha, pub.NCap), ModExp(pub.t, smp.x, pub.NCap), pub.NCap),
         B |-> ModMul(ModExp(pub.s, smp.beta, pub.NCap), ModExp(pub.t, smp.y, pub.NCap), pub.NCap),
         T |-> ModMul(ModExp(Q, smp.alpha, pub.NCap), ModExp(pub.t, smp.r, pub.NCap), pub.NCap),
         Sigma |-> smp.sigma]

\* NewProof past its nil check, with the samples smp and the challenge e
NewProof(pub, smp, e) ==
    LET cm == FacCommit(pub, smp)
    IN  [P |-> cm.P, Q |-> cm.Q, A |-> cm.A, B |-> cm.B, T |-> cm.T, Sigma |-> cm.Sigma,
         Z1 |-> e * pub.N0p + smp.alpha,
         Z2 |-> e * pub.N0q + smp.beta,
         W1 |-> e * smp.mu + smp.x,
         W2 |-> e * smp.nu + smp.y,
         V  |-> e * (smp.sigma - smp.nu * pub.N0p) + smp.r]

ValidateBasic(nil) == FacFields \cap nil = {}

\* lines 128-133 without the check of N0
FacSignsNoN0(pub) == pub.NCap > 0

\* lines 128-133: N0.Sign() == 1 and NCap.Sign() == 1
FacSigns(pub) == pub.N0 > 0 /\ pub.NCap > 0

\* the gcd checks left out
FacCoprimeMissing(pf, pub) == TRUE

\* lines 163-177
FacCoprime(pf, pub) ==
    \A f \in {"P", "Q", "A", "B", "T"} : GCD(pf[f], pub.NCap) = 1

\* lines 145-162 and 178-195
FacIntervals(pf, pub) ==
    /\ \A f \in {"P", "Q", "A", "B", "T"} : IsInInterval(pf[f], pub.NCap)
    /\ IsInInterval(pf.Sigma, lN0NCap(pub))
    /\ IsInInterval(pf.W1, leNCap2(pub))
    /\ IsInInterval(pf.W2, leNCap2(pub))
    /\ IsInInterval(pf.V, leN0NCap2(pub))
    /\ IsInInterval(pf.Z1, leSqrtN0(pub))
    /\ IsInInterval(pf.Z2, leSqrtN0(pub))

FacEquality1(pf, pub, e) ==
    ModMul(ModExp(pub.s, pf.Z1, pub.NCap), ModExp(pub.t, pf.W1, pub.NCap), pub.NCap)
      = ModMul(pf.A, ModExp(pf.P, e, pub.NCap), pub.NCap)

FacEquality2(pf, pub, e) ==
    ModMul(ModExp(pub.s, pf.Z2, pub.NCap), ModExp(pub.t, pf.W2, pub.NCap), pub.NCap)
      = ModMul(pf.B, ModExp(pf.Q, e, pub.NCap), pub.NCap)

FacEquality3(pf, pub, e) ==
    LET R == ModMul(ModExp(pub.s, pub.N0, pub.NCap), ModExp(pub.t, pf.Sigma, pub.NCap), pub.NCap)
    IN  ModMul(ModExp(pf.Q, pf.Z1, pub.NCap), ModExp(pub.t, pf.V, pub.NCap), pub.NCap)
          = ModMul(pf.T, ModExp(R, e, pub.NCap), pub.NCap)

\* the first interval check to fail, by the line of its return
FacIntervalLine(pf, pub) ==
    IF ~IsInInterval(pf.P, pub.NCap) THEN 146
    ELSE IF ~IsInInterval(pf.Q, pub.NCap) THEN 149
    ELSE IF ~IsInInterval(pf.A, pub.NCap) THEN 152
    ELSE IF ~IsInInterval(pf.B, pub.NCap) THEN 155
    ELSE IF ~IsInInterval(pf.T, pub.NCap) THEN 158
    ELSE IF ~IsInInterval(pf.Sigma, lN0NCap(pub)) THEN 161
    ELSE 0

FacResponseLine(pf, pub) ==
    IF ~IsInInterval(pf.W1, leNCap2(pub)) THEN 179
    ELSE IF ~IsInInterval(pf.W2, leNCap2(pub)) THEN 182
    ELSE IF ~IsInInterval(pf.V, leN0NCap2(pub)) THEN 185
    ELSE IF ~IsInInterval(pf.Z1, leSqrtN0(pub)) THEN 190
    ELSE IF ~IsInInterval(pf.Z2, leSqrtN0(pub)) THEN 194
    ELSE 0

\* ProofFac.Verify: the outcome and the line of proof.go that returns it.
\* "panic" is big.Int.Sqrt of a negative number at line 136.
FacVerify(pf, nil, pub, e) ==
    IF "pf" \in nil \/ ~ValidateBasic(nil) \/ (FacVerifyArgs \ {"pf"}) \cap nil # {}
    THEN [res |-> "false", line |-> 126]
    ELSE IF ~FacSigns(pub)
    THEN [res |-> "false", line |-> IF pub.N0 <= 0 THEN 129 ELSE 132]
    ELSE IF pub.N0 < 0 THEN [res |-> "panic", line |-> 136]
    ELSE IF FacIntervalLine(pf, pub) # 0
    THEN [res |-> "false", line |-> FacIntervalLine(pf, pub)]
    ELSE IF ~FacCoprime(pf, pub)
    THEN [res |-> "false", line |-> 164]
    ELSE IF FacResponseLine(pf, pub) # 0
    THEN [res |-> "false", line |-> FacResponseLine(pf, pub)]
    ELSE IF ~FacEquality1(pf, pub, e) THEN [res |-> "false", line |-> 210]
    ELSE IF ~FacEquality2(pf, pub, e) THEN [res |-> "false", line |-> 219]
    ELSE IF ~FacEquality3(pf, pub, e) THEN [res |-> "false", line |-> 229]
    ELSE [res |-> "true", line |-> 233]

\* whether Verify gets as far as the hash of line 199
FacReachesHash(pf, nil, pub) ==
    /\ FacVerifyArgs \cap nil = {} /\ ValidateBasic(nil)
    /\ pub.N0 > 0 /\ pub.NCap > 0
    /\ FacIntervals(pf, pub) /\ FacCoprime(pf, pub)

\* big.Int.Bytes: the absolute value, big-endian, no leading zero; empty for 0
RECURSIVE NatBytes(_)
NatBytes(n) == IF n = 0 THEN <<>> ELSE Append(NatBytes(n \div 256), n % 256)

IntBytes(x) == NatBytes(Abs(x))

\* big.Int.SetBytes: a big-endian unsigned integer
RECURSIVE SetBytes(_)
SetBytes(bz) ==
    IF bz = <<>> THEN 0
    ELSE SetBytes(SubSeq(bz, 1, Len(bz) - 1)) * 256 + bz[Len(bz)]

Bytes(pf) == [i \in 1..ProofFacBytesParts |-> IntBytes(pf[FacOrder[i]])]

NonEmptyMultiBytes(bzs, expectLen) ==
    /\ Len(bzs) # 0
    /\ expectLen = Len(bzs)
    /\ \A i \in 1..Len(bzs) : Len(bzs[i]) > 0

\* NewProofFromBytes with the parts of T and Sigma taken in the wrong order
NewProofFromBytesSwapped(bzs) ==
    IF ~NonEmptyMultiBytes(bzs, ProofFacBytesParts)
    THEN [err |-> TRUE, pf |-> ZeroFac]
    ELSE [err |-> FALSE,
          pf  |-> [P |-> SetBytes(bzs[1]), Q |-> SetBytes(bzs[2]), A |-> SetBytes(bzs[3]),
                   B |-> SetBytes(bzs[4]), T |-> SetBytes(bzs[6]), Sigma |-> SetBytes(bzs[5]),
                   Z1 |-> SetBytes(bzs[7]), Z2 |-> SetBytes(bzs[8]), W1 |-> SetBytes(bzs[9]),
                   W2 |-> SetBytes(bzs[10]), V |-> SetBytes(bzs[11])]]

\* NewProofFromBytes: err means the error is returned and the proof is nil
NewProofFromBytes(bzs) ==
    IF ~NonEmptyMultiBytes(bzs, ProofFacBytesParts)
    THEN [err |-> TRUE, pf |-> ZeroFac]
    ELSE [err |-> FALSE,
          pf  |-> [P |-> SetBytes(bzs[1]), Q |-> SetBytes(bzs[2]), A |-> SetBytes(bzs[3]),
                   B |-> SetBytes(bzs[4]), T |-> SetBytes(bzs[5]), Sigma |-> SetBytes(bzs[6]),
                   Z1 |-> SetBytes(bzs[7]), Z2 |-> SetBytes(bzs[8]), W1 |-> SetBytes(bzs[9]),
                   W2 |-> SetBytes(bzs[10]), V |-> SetBytes(bzs[11])]]

\* the range proof's variables while the factorization proof is exercised
RIdle ==
    /\ rpc = "idle"
    /\ rpub = [N |-> 1, NTilde |-> 1, h1 |-> 0, h2 |-> 0, m |-> 0, r |-> 0, c |-> 0]
    /\ rproof = ZeroRange
    /\ rnil = {}
    /\ rres = "none"
    /\ rtampered = FALSE
    /\ rbase = ZeroRange
    /\ rbaseRes = "none"

\* Statements: the factors, and the auxiliary modulus with its bases s, t
\* (s = 3 is not a unit modulo 15)
FacStatements ==
    {[N0p |-> f[1], N0q |-> f[2], N0 |-> f[1] * f[2], NCap |-> 15, s |-> b[1], t |-> b[2]] :
        f \in {<<2, 3>>, <<3, 5>>}, b \in {<<4, 2>>, <<3, 2>>}}

FacSamples(pub) ==
    [alpha : Ends(leSqrtN0(pub)), beta : Ends(leSqrtN0(pub)),
     mu : Ends(lNCap(pub)), nu : Ends(lNCap(pub)),
     sigma : Ends(lN0NCap(pub)),
     r : CoprimeEnds(leN0NCap(pub)),
     x : Ends(leNCap(pub)), y : Ends(leNCap(pub))]

FInit ==
    /\ oracle = <<>>
    /\ RIdle
    /\ fpc = "start"
    /\ fpub \in FacStatements
    /\ fproof = ZeroFac
    /\ fnil \in {{}} \cup {{a} : a \in FacProveArgs}
    /\ fres = "none"
    /\ fret = 0
    /\ ftampered = FALSE
    /\ wire = <<>>
    /\ wtampered = FALSE
    /\ fdec = [err |-> FALSE, pf |-> ZeroFac]
    /\ wire2 = <<>>

\* NewProof with a nil argument: the constructor error, and no proof
FNewProofNil ==
    /\ fpc = "start"
    /\ fnil # {}
    /\ fpc' = "failed"
    /\ fnil' = {"pf"}
    /\ UNCHANGED <<oracle, fpub, fproof, fres, fret, ftampered, wire, wtampered, fdec, wire2>>

FNewProof ==
    /\ fpc = "start"
    /\ fnil = {}
    /\ \E smp \in FacSamples(fpub), e \in Challenges :
          LET t == FacTranscript(FacCommit(fpub, smp), fpub)
          IN  /\ HashAllows(t, e)
              /\ oracle' = HashRecord(t, e)
              /\ fproof' = NewProof(fpub, smp, e)
    /\ fpc' = "proved"
    /\ UNCHANGED <<fpub, fnil, fres, fret, ftampered, wire, wtampered, fdec, wire2>>

FVerify ==
    /\ fpc \in {"proved", "failed"}
    /\ fres = "none"
    /\ \E e \in Challenges :
          LET t == FacTranscript(fproof, fpub)
              v == FacVerify(fproof, fnil, fpub, e)
          IN  /\ HashAllows(t, e)
              /\ fres' = v.res
              /\ fret' = v.line
              /\ oracle' = IF FacReachesHash(fproof, fnil, fpub)
                           THEN HashRecord(t, e) ELSE oracle
    /\ UNCHANGED <<fpc, fpub, fproof, fnil, ftampered, wire, wtampered, fdec, wire2>>

\* what a proof received from the network may hold in place of field f
FacReplacements(pf, pub, f) == {pf[f] + 1, pf[f] + pub.NCap, 0} \ {pf[f]}

FTamperField ==
    /\ fpc = "proved" /\ fres # "none" /\ ~ftampered
    /\ \E f \in FacFields : \E v \in FacReplacements(fproof, fpub, f) :
          fproof' = [fproof EXCEPT ![f] = v]
    /\ fres' = "none" /\ fret' = 0 /\ ftampered' = TRUE
    /\ UNCHANGED <<oracle, fpc, fpub, fnil, wire, wtampered, fdec, wire2>>

FTamperNil ==
    /\ fpc = "proved" /\ fres # "none" /\ ~ftampered
    /\ \E x \in FacVerifyArgs \cup FacFields : fnil' = {x}
    /\ fres' = "none" /\ fret' = 0 /\ ftampered' = TRUE
    /\ UNCHANGED <<oracle, fpc, fpub, fproof, wire, wtampered, fdec, wire2>>

\* Verify is handed a modulus that is not positive
FTamperStatement ==
    /\ fpc = "proved" /\ fres # "none" /\ ~ftampered
    /\ \/ \E n \in {0, -fpub.N0} : fpub' = [fpub EXCEPT !.N0 = n]
       \/ \E n \in {0, -fpub.NCap} : fpub' = [fpub EXCEPT !.NCap = n]
    /\ fres' = "none" /\ fret' = 0 /\ ftampered' = TRUE
    /\ UNCHANGED <<oracle, fpc, fproof, fnil, wire, wtampered, fdec, wire2>>

FBytes ==
    /\ fpc = "proved" /\ fres # "none" /\ ~ftampered
    /\ wire' = Bytes(fproof)
    /\ fpc' = "encoded"
    /\ UNCHANGED <<oracle, fpub, fproof, fnil, fres, fret, ftampered, wtampered, fdec, wire2>>

\* the parts are cut, padded, emptied or given a leading zero byte in transit
FTamperWire ==
    /\ fpc = "encoded" /\ ~wtampered
    /\ \/ wire' = SubSeq(wire, 1, Len(wire) - 1)
       \/ wire' = Append(wire, <<1>>)
       \/ \E i \in 1..Len(wire) : wire[i] # <<>> /\ wire' = [wire EXCEPT ![i] = <<>>]
       \/ \E i \in {1, 6, 11} : wire' = [wire EXCEPT ![i] = <<0>> \o wire[i]]
    /\ wtampered' = TRUE
    /\ UNCHANGED <<oracle, fpc, fpub, fproof, fnil, fres, fret, ftampered, fdec, wire2>>

FNewProofFromBytes ==
    /\ fpc = "encoded"
    /\ fdec' = NewProofFromBytes(wire)
    /\ fpc' = "decoded"
    /\ UNCHANGED <<oracle, fpub, fproof, fnil, fres, fret, ftampered, wire, wtampered, wire2>>

FBytesAgain ==
    /\ fpc = "decoded"
    /\ ~fdec.err
    /\ wire2' = Bytes(fdec.pf)
    /\ fpc' = "reencoded"
    /\ UNCHANGED <<oracle, fpub, fproof, fnil, fres, fret, ftampered, wire, wtampered, fdec>>

FNext ==
    \/ FNewProofNil /\ UNCHANGED rvars
    \/ FNewProof /\ UNCHANGED rvars
    \/ FVerify /\ UNCHANGED rvars
    \/ FTamperField /\ UNCHANGED rvars
    \/ FTamperNil /\ UNCHANGED rvars
    \/ FTamperStatement /\ UNCHANGED rvars
    \/ FBytes /\ UNCHANGED rvars
    \/ FTamperWire /\ UNCHANGED rvars
    \/ FNewProofFromBytes /\ UNCHANGED rvars
    \/ FBytesAgain /\ UNCHANGED rvars

SpecFac == FInit /\ [][FNext]_vars

(***************************************************************************)
(* Range proof: properties.                                                *)
(***************************************************************************)
\* Verify has run on the proof ProveRangeAlice returned, with nothing altered
RHonestVerified == rpc = "proved" /\ ~rtampered /\ rres # "none"

\* the challenge the hash gave for the transcript of the untouched proof
RHonestChallenge == oracle[RangeTranscript(rproof, {}, rpub)]

\* C1 (as claimed): Verify accepts every proof ProveRangeAlice returns, for
\* every plaintext m in [0, N) and every value of the samples.
C1_Completeness == RHonestVerified => rres = "true"

\* C1 (amended): Verify accepts every proof ProveRangeAlice returns whose
\* response S1 = e*m + alpha does not exceed q^3.
C1_CompletenessWithinBound ==
    (RHonestVerified /\ rproof.S1 <= q3) => rres = "true"

C1_Witness ==
    /\ RHonestVerified /\ rres = "true"
    /\ rpub.m > 0 /\ RHonestChallenge > 0 /\ rproof.S1 > rpub.m /\ rproof.S1 <= q3

\* C3: Verify returns false whenever S1 > q^3, whatever the statement and
\* the other five fields are, also when both equalities hold.
C3_RangeBoundRejected ==
    (rres # "none" /\ "S1" \notin rnil /\ rproof.S1 > q3) => rres = "false"

C3_Witness ==
    /\ RHonestVerified /\ rres = "false"
    /\ rproof.S1 = q3 + 1
    /\ rproof.U = RangeProducts4(rproof, rpub, RHonestChallenge)
    /\ rproof.W = RangeProducts5(rproof, rpub, RHonestChallenge)

\* a single field of an accepted proof was replaced (or S1 and S2 swapped),
\* and Verify has run on the result
RMutatedVerified ==
    /\ rtampered /\ rnil = {} /\ rbaseRes = "true" /\ rres # "none"

\* the commitments Z, U, W, and with them the challenge, are the accepted proof's
RResponsesOnly == rproof.Z = rbase.Z /\ rproof.U = rbase.U /\ rproof.W = rbase.W

\* C5 (as claimed): after a single field of an accepted proof is replaced by
\* a different integer, or S1 and S2 are swapped, Verify rejects.  Stated
\* for the fields S, S1, S2, where the outcome does not rest on the hash.
C5_SingleFieldMutationRejected ==
    (RMutatedVerified /\ RResponsesOnly) => rres # "true"

\* the residues Verify's two equalities read from the responses S, S1, S2
RSameResidues(a, b, pub) ==
    /\ ModMul(ModExp(PaillierGamma(pub.N), b.S1, NSquare(pub.N)),
              ModExp(b.S, pub.N, NSquare(pub.N)), NSquare(pub.N))
         = ModMul(ModExp(PaillierGamma(pub.N), a.S1, NSquare(pub.N)),
                  ModExp(a.S, pub.N, NSquare(pub.N)), NSquare(pub.N))
    /\ ModMul(ModExp(pub.h1, b.S1, pub.NTilde), ModExp(pub.h2, b.S2, pub.NTilde), pub.NTilde)
         = ModMul(ModExp(pub.h1, a.S1, pub.NTilde), ModExp(pub.h2, a.S2, pub.NTilde), pub.NTilde)

\* C5 (amended): after one of the responses S, S1, S2 of an accepted proof is
\* replaced by a different integer, or S1 and S2 are swapped, Verify rejects
\* unless S1 is still at most q^3 and Gamma^S1 * S^N mod N^2 and
\* h1^S1 * h2^S2 mod NTilde are unchanged, and then it accepts.
C5_ResponseMutation ==
    (RMutatedVerified /\ RResponsesOnly)
    => (rres = "true" <=> (rproof.S1 <= q3 /\ RSameResidues(rbase, rproof, rpub)))

C5_Witness ==
    /\ RMutatedVerified
    /\ rproof.S2 # rbase.S2 /\ rproof.S = rbase.S /\ rproof.S1 = rbase.S1
    /\ RResponsesOnly
    /\ rres = "false"

\* an accepted proof whose S was replaced by S + N is accepted again
C5_AcceptedMutation ==
    /\ RMutatedVerified
    /\ rproof = [rbase EXCEPT !.S = rbase.S + rpub.N]
    /\ rres = "true"

\* C8: Verify returns false, and does not panic, when the proof, a public
\* input or one of the six proof fields is nil.
C8_NilReturnsFalse == (rres # "none" /\ rnil # {}) => rres = "false"

(***************************************************************************)
(* Factorization proof: properties.                                        *)
(***************************************************************************)
\* Verify has run on the proof NewProof returned, with nothing altered
FHonestVerified == fpc = "proved" /\ ~ftampered /\ fres # "none"

\* the challenge the hash gave for the transcript of the untouched proof
FHonestChallenge == oracle[FacTranscript(fproof, fpub)]

\* C2: Verify accepts every proof NewProof returns when s and t are
\* relatively prime to NCap, for every value of the samples.
C2_FacCompleteness ==
    (FHonestVerified /\ GCD(fpub.s, fpub.NCap) = 1 /\ GCD(fpub.t, fpub.NCap) = 1)
    => fres = "true"

\* C4: Verify returns false whenever one of P, Q, A, B, T is not relatively
\* prime to NCap, also when every other check would pass.
C4_CoprimalityRejected ==
    (/\ fres # "none"
     /\ \E f \in {"P", "Q", "A", "B", "T"} : f \notin fnil /\ GCD(fproof[f], fpub.NCap) # 1)
    => fres = "false"

C4_Witness ==
    /\ FHonestVerified /\ fres = "false" /\ fret = 164
    /\ FHonestChallenge > 0
    /\ GCD(fproof.P, fpub.NCap) # 1
    /\ FacIntervals(fproof, fpub)
    /\ FacEquality1(fproof, fpub, FHonestChallenge)
    /\ FacEquality2(fproof, fpub, FHonestChallenge)
    /\ FacEquality3(fproof, fpub, FHonestChallenge)

\* C6: for a proof whose fields are non-negative, and which Verify accepts,
\* NewProofFromBytes(Bytes()) succeeds and returns the same eleven integers,
\* and Bytes() of the result is the same eleven byte arrays.
C6_RoundTrip ==
    (/\ fpc \in {"decoded", "reencoded"} /\ ~wtampered
     /\ fres = "true"
     /\ \A f \in FacFields : fproof[f] >= 0)
    => (/\ ~fdec.err
        /\ fdec.pf = fproof
        /\ (fpc = "reencoded" => wire2 = wire))

\* the unsigned big-endian value of a byte array, from its first byte on
RECURSIVE BigEndian(_, _)
BigEndian(bz, acc) ==
    IF bz = <<>> THEN acc ELSE BigEndian(Tail(bz), acc * 256 + Head(bz))

\* C7: NewProofFromBytes returns an error and no proof unless there are
\* exactly 11 parts, none of them empty; then it returns no error and the
\* i-th field, in the order P, Q, A, B, T, Sigma, Z1, Z2, W1, W2, V, is the
\* unsigned big-endian value of part i, whatever that value is.
C7_MalformedDecode ==
    fpc \in {"decoded", "reencoded"} =>
        IF Len(wire) # 11 \/ \E i \in 1..Len(wire) : wire[i] = <<>>
        THEN fdec.err
        ELSE /\ ~fdec.err
             /\ fdec.pf.P = BigEndian(wire[1], 0) /\ fdec.pf.Q = BigEndian(wire[2], 0)
             /\ fdec.pf.A = BigEndian(wire[3], 0) /\ fdec.pf.B = BigEndian(wire[4], 0)
             /\ fdec.pf.T = BigEndian(wire[5], 0) /\ fdec.pf.Sigma = BigEndian(wire[6], 0)
             /\ fdec.pf.Z1 = BigEndian(wire[7], 0) /\ fdec.pf.Z2 = BigEndian(wire[8], 0)
             /\ fdec.pf.W1 = BigEndian(wire[9], 0) /\ fdec.pf.W2 = BigEndian(wire[10], 0)
             /\ fdec.pf.V = BigEndian(wire[11], 0)

C7_Witness ==
    /\ fpc = "decoded" /\ wtampered /\ fdec.err
    /\ Len(wire) = 10 /\ \A i \in 1..Len(wire) : wire[i] # <<>>

\* 11 non-empty parts, one of two bytes and one with a leading zero, decode
C7_DecodedWitness ==
    /\ fpc = "decoded" /\ wtampered /\ ~fdec.err
    /\ \E i \in 1..Len(wire) : Len(wire[i]) = 2 /\ wire[i][1] # 0
    /\ fdec.pf.T # fdec.pf.Sigma

\* C9: Verify returns false, at one of its first three returns and so before
\* any bound, gcd, square root or power is computed, when the proof, one of
\* its fields or one of ec, N0, NCap, s, t is nil, or N0 <= 0, or NCap <= 0.
C9_FailsClosed ==
    (fres # "none" /\ (fnil # {} \/ fpub.N0 <= 0 \/ fpub.NCap <= 0))
    => (fres = "false" /\ fret \in {126, 129, 132})

C9_Witness ==
    /\ fres = "false" /\ fret = 129 /\ fnil = {} /\ fpub.N0 < 0

\* C10: every field of a proof NewProof returns is >= 0.
C10_FieldsNonNegative ==
    (fpc = "proved" /\ ~ftampered) => \A f \in FacFields : fproof[f] >= 0

====
